---- MODULE Spec2Model ----
(***************************************************************************)
(* Model of psutil/_pssunos.py: the Process wrapper class and the         *)
(* wrap_exceptions error classifier, run against a process that may       *)
(* terminate between any two low-level reads.                             *)
(*                                                                         *)
(* One Process handle is constructed at Init.  A call of one of its       *)
(* methods runs from pc = "idle"/"done" to pc = "done"; a method that     *)
(* makes more than one low-level call is split at each such call, so the  *)
(* environment step Die can fall between any two of them.  Every          *)
(* low-level call is appended to `calls` with its result and with whether *)
(* the process was alive when it was made.                                *)
(***************************************************************************)
EXTENDS Integers, Sequences, FiniteSets, TLC

VARIABLES pid, _process_name, alive, alive0, op, arg, pc,
          rawlist, idx, ret, hit_enoent, calls, inner, result

vars == <<pid, _process_name, alive, alive0, op, arg, pc,
          rawlist, idx, ret, hit_enoent, calls, inner, result>>

(* ----------------------------- bounds --------------------------------- *)

\* process ids a handle is constructed for: 1..MaxPid
MaxPid == 4
\* largest number of entries one listing (threads, fds, maps, connections) returns
MaxEntries == 2

Pids == 1..MaxPid

(* ------------------------ values and outcomes ------------------------- *)

None == "None"

ENOENT == "ENOENT"
ESRCH == "ESRCH"
EPERM == "EPERM"
EACCES == "EACCES"
EIO == "EIO"

\* the failure codes a low-level call can report
Errnos == {ENOENT, ESRCH, EPERM, EACCES, EIO}

\* outcome of a Python call: a returned value or a raised exception
Return(v) == [kind |-> "return", val |-> v]
EnvironmentError(e) == [kind |-> "EnvironmentError", errno |-> e]
NoSuchProcess(p, n) == [kind |-> "NoSuchProcess", pid |-> p, name |-> n]
AccessDenied(p, n) == [kind |-> "AccessDenied", pid |-> p, name |-> n]
TimeoutExpired(t, p, n) == [kind |-> "TimeoutExpired", timeout |-> t, pid |-> p, name |-> n]
Raise(k) == [kind |-> k]

NoCall == [kind |-> "none"]

(* --------------------------- wrap_exceptions -------------------------- *)

\* a classifier that forgets ESRCH
wrap_exceptions_NoEsrch(o) ==
    IF o.kind = "EnvironmentError"
    THEN IF o.errno \in {ENOENT}
         THEN NoSuchProcess(pid, _process_name)
         ELSE IF o.errno \in {EPERM, EACCES}
              THEN AccessDenied(pid, _process_name)
              ELSE o
    ELSE o

\* wrapper(self, ...): the outcome of the wrapped callable, translated
wrap_exceptions(o) ==
    IF o.kind = "EnvironmentError"
    THEN IF o.errno \in {ENOENT, ESRCH}
         THEN NoSuchProcess(pid, _process_name)
         ELSE IF o.errno \in {EPERM, EACCES}
              THEN AccessDenied(pid, _process_name)
              ELSE o
    ELSE o

(* ------------------------- the operating system ----------------------- *)

\* results of a low-level read of the process: a terminated process has
\* no /proc entry (ENOENT on open, ESRCH on read); a live one yields one of
\* the values or any failure code
Read(vals) ==
    IF alive THEN {Return(v) : v \in vals} \cup {EnvironmentError(e) : e \in Errnos}
    ELSE {EnvironmentError(ENOENT), EnvironmentError(ESRCH)}

\* what a low-level result is logged as
ResultTag(o) == IF o.kind = "return" THEN "ok" ELSE o.errno

\* the log c extended by one low-level call fn(a) that gave r
LogOn(c, fn, a, r) == Append(c, [fn |-> fn, arg |-> a, r |-> r, alive |-> alive])

\* `calls` extended by one low-level call fn(a) with outcome o
Log(fn, a, o) == LogOn(calls, fn, a, ResultTag(o))

\* the first low-level call of a method
First(fn, a, o) == LogOn(<<>>, fn, a, ResultTag(o))

\* os.stat('/proc/<pid>')
os_stat == IF alive THEN Return("stat") ELSE EnvironmentError(ENOENT)

\* _psposix.pid_exists(pid)
pid_exists == alive

(* ------------------------------ the handle ---------------------------- *)

\* Process.__init__
Init ==
    /\ pid \in Pids
    /\ _process_name = None
    /\ alive \in BOOLEAN
    /\ alive0 = alive
    /\ op = "none"
    /\ arg = None
    /\ pc = "idle"
    /\ rawlist = <<>>
    /\ idx = 0
    /\ ret = <<>>
    /\ hit_enoent = FALSE
    /\ calls = <<>>
    /\ inner = NoCall
    /\ result = NoCall

\* no call is in progress
Callable == pc \in {"idle", "done"}

\* a call of method m with argument a begins
Enter(m, a) ==
    /\ Callable
    /\ op' = m
    /\ arg' = a
    /\ alive0' = alive
    /\ UNCHANGED <<pid, _process_name, alive>>

\* the method body ends with outcome o, which the wrapper translates
Finish(o) ==
    /\ inner' = o
    /\ result' = wrap_exceptions(o)
    /\ pc' = "done"

\* the locals of the enumerating methods, as a call starts
NoLocals ==
    /\ rawlist' = <<>>
    /\ idx' = 0
    /\ ret' = <<>>
    /\ hit_enoent' = FALSE

\* the process terminates
Die ==
    /\ alive
    /\ alive' = FALSE
    /\ UNCHANGED <<pid, _process_name, alive0, op, arg, pc,
                   rawlist, idx, ret, hit_enoent, calls, inner, result>>

\* the method goes on to its next low-level call, at label l
Goto(l) ==
    /\ pc' = l
    /\ inner' = NoCall
    /\ result' = NoCall

(* ----------------------- values of the native reads ------------------- *)

\* (name, args) pairs of get_proc_name_and_args; args is a string, kept as
\* its sequence of characters
NameAndArgs == { <<"sh", <<"s", "h", " ", "-", "c">> >>, <<"sched", <<>> >> }

\* get_proc_basic_info tuples: (ppid, rss, vms, create_time, tty, nthreads, status)
BasicInfos == { <<1, 4, 8, 100, 0, 1, "SSLEEP">>, <<0, 0, 0, 7, 0, 2, "S99">> }

\* get_proc_cred tuples: (ruid, euid, suid, rgid, egid, sgid)
Creds == { <<0, 0, 0, 1, 1, 1>>, <<100, 0, 100, 10, 10, 5>> }

\* (user, system) pairs
CpuTimes == { <<1, 2>> }

\* (voluntary, involuntary) pairs
CtxSwitches == { <<3, 4>> }

\* link targets
Paths == { "/a", "/b" }

Priorities == { 0, 10 }

PROC_STATUSES ==
    [c \in {"SSLEEP", "SRUN", "SZOMB", "SSTOP", "SIDL", "SONPROC", "SWAIT"} |->
        CASE c = "SSLEEP" -> "sleeping"
          [] c = "SRUN" -> "running"
          [] c = "SZOMB" -> "zombie"
          [] c = "SSTOP" -> "stopped"
          [] c = "SIDL" -> "idle"
          [] c = "SONPROC" -> "running"
          [] c = "SWAIT" -> "waiting"]

RECURSIVE split(_, _, _)
\* str.split(sep): s cut at every sep, cur being the piece read so far
split(s, sep, cur) ==
    IF s = <<>> THEN <<cur>>
    ELSE IF Head(s) = sep THEN <<cur>> \o split(Tail(s), sep, <<>>)
         ELSE split(Tail(s), sep, Append(cur, Head(s)))

(* ------------------------- single-value accessors --------------------- *)

get_name ==
    /\ Enter("get_name", None)
    /\ NoLocals
    /\ \E o \in Read(NameAndArgs) :
         /\ calls' = First("get_proc_name_and_args", 0, o)
         /\ Finish(IF o.kind = "return" THEN Return(o.val[1]) ELSE o)

\* self.get_proc_cmdline is not an attribute of Process
get_exe ==
    /\ Enter("get_exe", None)
    /\ NoLocals
    /\ calls' = <<>>
    /\ Finish(Raise("AttributeError"))

get_cmdline ==
    /\ Enter("get_cmdline", None)
    /\ NoLocals
    /\ \E o \in Read(NameAndArgs) :
         /\ calls' = First("get_proc_name_and_args", 0, o)
         /\ Finish(IF o.kind = "return" THEN Return(split(o.val[2], " ", <<>>)) ELSE o)

get_create_time ==
    /\ Enter("get_create_time", None)
    /\ NoLocals
    /\ \E o \in Read(BasicInfos) :
         /\ calls' = First("get_proc_basic_info", 0, o)
         /\ Finish(IF o.kind = "return" THEN Return(o.val[4]) ELSE o)

get_num_threads ==
    /\ Enter("get_num_threads", None)
    /\ NoLocals
    /\ \E o \in Read(BasicInfos) :
         /\ calls' = First("get_proc_basic_info", 0, o)
         /\ Finish(IF o.kind = "return" THEN Return(o.val[6]) ELSE o)

get_ppid ==
    /\ Enter("get_ppid", None)
    /\ NoLocals
    /\ \E o \in Read(BasicInfos) :
         /\ calls' = First("get_proc_basic_info", 0, o)
         /\ Finish(IF o.kind = "return" THEN Return(o.val[1]) ELSE o)

get_uids ==
    /\ Enter("get_uids", None)
    /\ NoLocals
    /\ \E o \in Read(Creds) :
         /\ calls' = First("get_proc_cred", 0, o)
         /\ Finish(IF o.kind = "return"
                   THEN Return(<<o.val[1], o.val[2], o.val[3]>>) ELSE o)

get_gids ==
    /\ Enter("get_gids", None)
    /\ NoLocals
    /\ \E o \in Read(Creds) :
         /\ calls' = First("get_proc_cred", 0, o)
         /\ Finish(IF o.kind = "return"
                   THEN Return(<<o.val[4], o.val[5], o.val[6]>>) ELSE o)

get_cpu_times ==
    /\ Enter("get_cpu_times", None)
    /\ NoLocals
    /\ \E o \in Read(CpuTimes) :
         /\ calls' = First("get_proc_cpu_times", 0, o)
         /\ Finish(IF o.kind = "return" THEN Return(<<o.val[1], o.val[2]>>) ELSE o)

get_memory_info ==
    /\ Enter("get_memory_info", None)
    /\ NoLocals
    /\ \E o \in Read(BasicInfos) :
         /\ calls' = First("get_proc_basic_info", 0, o)
         /\ Finish(IF o.kind = "return"
                   THEN Return(<<o.val[2] * 1024, o.val[3] * 1024>>) ELSE o)

get_status ==
    /\ Enter("get_status", None)
    /\ NoLocals
    /\ \E o \in Read(BasicInfos) :
         /\ calls' = First("get_proc_basic_info", 0, o)
         /\ Finish(IF o.kind = "return"
                   THEN Return(IF o.val[7] \in DOMAIN PROC_STATUSES
                               THEN PROC_STATUSES[o.val[7]] ELSE "?")
                   ELSE o)

get_num_ctx_switches ==
    /\ Enter("get_num_ctx_switches", None)
    /\ NoLocals
    /\ \E o \in Read(CtxSwitches) :
         /\ calls' = First("get_proc_num_ctx_switches", 0, o)
         /\ Finish(IF o.kind = "return" THEN Return(<<o.val[1], o.val[2]>>) ELSE o)

\* the listings os.listdir can give: the entries 1..n
Listings == { [i \in 1..n |-> i] : n \in 0..MaxEntries }

get_num_fds ==
    /\ Enter("get_num_fds", None)
    /\ NoLocals
    /\ \E o \in Read(Listings) :
         /\ calls' = First("os.listdir", 0, o)
         /\ Finish(IF o.kind = "return" THEN Return(Len(o.val)) ELSE o)

(* -------------------------------- priority ---------------------------- *)

\* get_nice up to the failure of getpriority
get_nice ==
    /\ Enter("get_nice", None)
    /\ NoLocals
    /\ \E o \in Read(Priorities) :
         /\ calls' = First("getpriority", 0, o)
         /\ IF o.kind = "EnvironmentError" /\ o.errno \in {ENOENT, ESRCH}
            THEN Goto("get_nice_pid_exists")
            ELSE Finish(o)

\* an except clause that re-raises whatever pid_exists says
get_nice_pid_exists_Reraise ==
    /\ pc = "get_nice_pid_exists"
    /\ calls' = LogOn(calls, "pid_exists", 0, IF pid_exists THEN "True" ELSE "False")
    /\ Finish(EnvironmentError(calls[Len(calls)].r))
    /\ UNCHANGED <<pid, _process_name, alive, alive0, op, arg,
                   rawlist, idx, ret, hit_enoent>>

\* get_nice: the except clause, from pid_exists on
get_nice_pid_exists ==
    /\ pc = "get_nice_pid_exists"
    /\ calls' = LogOn(calls, "pid_exists", 0, IF pid_exists THEN "True" ELSE "False")
    /\ IF pid_exists
       THEN Finish(AccessDenied(pid, _process_name))
       ELSE Finish(EnvironmentError(calls[Len(calls)].r))
    /\ UNCHANGED <<pid, _process_name, alive, alive0, op, arg,
                   rawlist, idx, ret, hit_enoent>>

\* a set_proc_nice that refuses pid 2 only
set_proc_nice_Only2 ==
    \E value \in Priorities :
      /\ Enter("set_proc_nice", value)
      /\ NoLocals
      /\ IF pid \in {2}
         THEN /\ calls' = <<>>
              /\ Finish(AccessDenied(pid, _process_name))
         ELSE \E o \in Read({None}) :
                /\ calls' = First("setpriority", value, o)
                /\ Finish(o)

set_proc_nice ==
    \E value \in Priorities :
      /\ Enter("set_proc_nice", value)
      /\ NoLocals
      /\ IF pid \in {2, 3}
         THEN /\ calls' = <<>>
              /\ Finish(AccessDenied(pid, _process_name))
         ELSE \E o \in Read({None}) :
                /\ calls' = First("setpriority", value, o)
                /\ Finish(o)

(* ------------------------ terminal and directory ---------------------- *)

\* the descriptors get_terminal tries, in order
TermFds == <<0, 1, 2, 255>>

\* tty is the function wrap_exceptions returns, never equal to PRNODEV
tty_ne_PRNODEV == TRUE

\* get_terminal up to the first readlink
get_terminal ==
    /\ Enter("get_terminal", None)
    /\ NoLocals
    /\ \E o \in Read(BasicInfos) :
         /\ calls' = First("get_proc_basic_info", 0, o)
         /\ IF o.kind # "return" THEN Finish(o)
            ELSE IF tty_ne_PRNODEV THEN Goto("get_terminal_readlink")
                 ELSE Finish(Return(None))

\* get_terminal: one turn of the loop over TermFds
get_terminal_readlink ==
    /\ pc = "get_terminal_readlink"
    /\ \E o \in Read(Paths) :
         /\ calls' = Log("os.readlink", TermFds[idx + 1], o)
         /\ IF o.kind = "return" THEN Finish(o) /\ UNCHANGED <<idx, hit_enoent>>
            ELSE IF o.errno = ENOENT
                 THEN /\ hit_enoent' = TRUE
                      /\ idx' = idx + 1
                      /\ Goto(IF idx + 1 = Len(TermFds)
                              THEN "get_terminal_stat" ELSE "get_terminal_readlink")
                 ELSE Finish(o) /\ UNCHANGED <<idx, hit_enoent>>
    /\ UNCHANGED <<pid, _process_name, alive, alive0, op, arg, rawlist, ret>>

\* get_terminal after the loop
get_terminal_stat ==
    /\ pc = "get_terminal_stat"
    /\ IF hit_enoent
       THEN /\ calls' = Log("os.stat", 0, os_stat)
            /\ Finish(IF os_stat.kind = "return" THEN Return(None) ELSE os_stat)
       ELSE /\ calls' = calls
            /\ Finish(Return(None))
    /\ UNCHANGED <<pid, _process_name, alive, alive0, op, arg,
                   rawlist, idx, ret, hit_enoent>>

\* get_cwd up to the failure of readlink
get_cwd ==
    /\ Enter("get_cwd", None)
    /\ NoLocals
    /\ \E o \in Read(Paths) :
         /\ calls' = First("os.readlink", 0, o)
         /\ IF o.kind = "EnvironmentError" /\ o.errno = ENOENT
            THEN Goto("get_cwd_stat")
            ELSE Finish(o)

\* an except clause that returns None without looking at the process
get_cwd_stat_NoCheck ==
    /\ pc = "get_cwd_stat"
    /\ calls' = calls
    /\ Finish(Return(None))
    /\ UNCHANGED <<pid, _process_name, alive, alive0, op, arg,
                   rawlist, idx, ret, hit_enoent>>

\* get_cwd: the except clause, from os.stat on
get_cwd_stat ==
    /\ pc = "get_cwd_stat"
    /\ calls' = Log("os.stat", 0, os_stat)
    /\ Finish(IF os_stat.kind = "return" THEN Return(None) ELSE os_stat)
    /\ UNCHANGED <<pid, _process_name, alive, alive0, op, arg,
                   rawlist, idx, ret, hit_enoent>>

\* the timeouts process_wait is called with
Timeouts == <<None, 0>>

\* process_wait(timeout)
process_wait ==
    \E t \in DOMAIN Timeouts :
      /\ Enter("process_wait", Timeouts[t])
      /\ NoLocals
      /\ calls' = <<>>
      /\ \E k \in {"return", "TimeoutExpired"} :
           Finish(IF k = "TimeoutExpired"
                  THEN TimeoutExpired(Timeouts[t], pid, _process_name)
                  ELSE Return(0))

(* -------------------------------- enumerators ------------------------- *)

\* all sequences over S of length at most n
SeqsUpTo(S, n) == UNION { [1..k -> S] : k \in 0..n }

\* a loop that stops at the first missed entry instead of going on
LoopNext_Break(loop, stat, r, hit) ==
    /\ idx' = idx + 1
    /\ ret' = r
    /\ hit_enoent' = hit
    /\ IF hit THEN Goto(stat)
       ELSE IF idx + 1 < Len(rawlist) THEN Goto(loop)
            ELSE Finish(Return(r))

\* a loop that always goes on to the check, whether or not an entry was missed
LoopNext_AlwaysStat(loop, stat, r, hit) ==
    /\ idx' = idx + 1
    /\ ret' = r
    /\ hit_enoent' = hit
    /\ IF idx + 1 < Len(rawlist) THEN Goto(loop)
       ELSE Goto(stat)

\* the end of one turn of an enumerator's loop: on to the next entry at
\* label loop, or past the last one to the check at label stat when an
\* entry was missed, or to the return of the list r
LoopNext(loop, stat, r, hit) ==
    /\ idx' = idx + 1
    /\ ret' = r
    /\ hit_enoent' = hit
    /\ IF idx + 1 < Len(rawlist) THEN Goto(loop)
       ELSE IF hit THEN Goto(stat)
            ELSE Finish(Return(r))

\* the last lines of an enumerator, reached with hit_enoent set:
\* os.stat('/proc/<pid>'), then return
AfterLoop ==
    /\ calls' = Log("os.stat", 0, os_stat)
    /\ Finish(IF os_stat.kind = "return" THEN Return(ret) ELSE os_stat)
    /\ UNCHANGED <<pid, _process_name, alive, alive0, op, arg,
                   rawlist, idx, ret, hit_enoent>>

\* get_threads up to the loop over tids
get_threads ==
    /\ Enter("get_threads", None)
    /\ idx' = 0
    /\ ret' = <<>>
    /\ hit_enoent' = FALSE
    /\ \E o \in Read(Listings) :
         /\ calls' = First("os.listdir", 0, o)
         /\ IF o.kind # "return" THEN Finish(o) /\ rawlist' = <<>>
            ELSE /\ rawlist' = o.val
                 /\ IF o.val = <<>> THEN Finish(Return(<<>>))
                    ELSE Goto("get_threads_query")

\* get_threads: one turn of the loop
get_threads_query ==
    /\ pc = "get_threads_query"
    /\ LET tid == rawlist[idx + 1] IN
       \E o \in Read(CpuTimes) :
         /\ calls' = Log("query_process_thread", tid, o)
         /\ IF o.kind = "return"
            THEN LoopNext("get_threads_query", "get_threads_stat",
                          Append(ret, <<tid, o.val[1], o.val[2]>>), hit_enoent)
            ELSE IF o.errno = ENOENT
                 THEN LoopNext("get_threads_query", "get_threads_stat", ret, TRUE)
                 ELSE Finish(o) /\ UNCHANGED <<idx, ret, hit_enoent>>
    /\ UNCHANGED <<pid, _process_name, alive, alive0, op, arg, rawlist>>

\* get_threads after the loop
get_threads_stat ==
    /\ pc = "get_threads_stat"
    /\ AfterLoop

\* isfile_strict(file): whether the link target is a regular file; it stats
\* the target, not the process, and lets EPERM and EACCES through
isfile_strict == {"True", "False", EPERM, EACCES}

\* get_open_files up to the loop over the descriptors
get_open_files ==
    /\ Enter("get_open_files", None)
    /\ idx' = 0
    /\ ret' = <<>>
    /\ hit_enoent' = FALSE
    /\ \E o \in Read(Listings) :
         /\ calls' = First("os.listdir", 0, o)
         /\ IF o.kind # "return" THEN Finish(o) /\ rawlist' = <<>>
            ELSE /\ rawlist' = o.val
                 /\ IF o.val = <<>> THEN Finish(Return(<<>>))
                    ELSE Goto("get_open_files_islink")

\* os.path.islink(path) of an entry of /proc/<pid>/path: False when lstat
\* fails, as it does once the process is gone
os_path_islink == IF alive THEN {TRUE, FALSE} ELSE {FALSE}

\* get_open_files: a turn of the loop, up to readlink
get_open_files_islink ==
    /\ pc = "get_open_files_islink"
    /\ \E l \in os_path_islink :
         /\ calls' = LogOn(calls, "os.path.islink", rawlist[idx + 1],
                           IF l THEN "True" ELSE "False")
         /\ IF l THEN Goto("get_open_files_readlink") /\ UNCHANGED <<idx, ret, hit_enoent>>
            ELSE LoopNext("get_open_files_islink", "get_open_files_stat",
                          ret, hit_enoent)
    /\ UNCHANGED <<pid, _process_name, alive, alive0, op, arg, rawlist>>

\* get_open_files: a turn of the loop, from readlink on
get_open_files_readlink ==
    /\ pc = "get_open_files_readlink"
    /\ LET fd == rawlist[idx + 1] IN
       \E o \in Read(Paths) :
         IF o.kind = "return"
         THEN \E f \in isfile_strict :
                /\ calls' = LogOn(Log("os.readlink", fd, o), "isfile_strict", fd, f)
                /\ IF f = "True"
                   THEN LoopNext("get_open_files_islink", "get_open_files_stat",
                                 Append(ret, <<o.val, fd>>), hit_enoent)
                   ELSE IF f = "False"
                        THEN LoopNext("get_open_files_islink", "get_open_files_stat",
                                      ret, hit_enoent)
                        ELSE Finish(EnvironmentError(f)) /\ UNCHANGED <<idx, ret, hit_enoent>>
         ELSE /\ calls' = Log("os.readlink", fd, o)
              /\ IF o.errno = ENOENT
                 THEN LoopNext("get_open_files_islink", "get_open_files_stat", ret, TRUE)
                 ELSE Finish(o) /\ UNCHANGED <<idx, ret, hit_enoent>>
    /\ UNCHANGED <<pid, _process_name, alive, alive0, op, arg, rawlist>>

\* get_open_files after the loop
get_open_files_stat ==
    /\ pc = "get_open_files_stat"
    /\ AfterLoop

\* the hexadecimal digits of n, most significant first
HexDigit == <<"0", "1", "2", "3", "4", "5", "6", "7",
              "8", "9", "a", "b", "c", "d", "e", "f">>

RECURSIVE hex(_)
\* hex(n)[2:].strip('L')
hex(n) == IF n < 16 THEN <<HexDigit[n + 1]>>
          ELSE Append(hex(n \div 16), HexDigit[(n % 16) + 1])

\* toaddr(start, end)
toaddr(start, end) == hex(start) \o <<"-">> \o hex(end)

\* name.startswith('['), name being a sequence of characters
startswith_bracket(name) == Len(name) > 0 /\ name[1] = "["

\* '/proc/%s/path/%s' % (pid, name)
unresolved(name) == <<"/proc", pid, "path", name>>

\* get_proc_memory_maps items: (addr, addrsize, perm, name, rss, anon, locked)
MapItems == { <<65536, 4096, "r-x", <<"a", ".", "o">>, 3, 0, 0>>,
              <<255, 16, "rw-", <<"[", "h", "]">>, 2, 2, 0>> }

\* get_memory_maps up to the loop over the mappings
get_memory_maps ==
    /\ Enter("get_memory_maps", None)
    /\ idx' = 0
    /\ ret' = <<>>
    /\ hit_enoent' = FALSE
    /\ \E o \in Read(SeqsUpTo(MapItems, MaxEntries)) :
         /\ calls' = First("get_proc_memory_maps", 0, o)
         /\ IF o.kind # "return" THEN Finish(o) /\ rawlist' = <<>>
            ELSE /\ rawlist' = o.val
                 /\ IF o.val = <<>> THEN Finish(Return(<<>>))
                    ELSE Goto("get_memory_maps_item")

\* get_memory_maps: one turn of the loop
get_memory_maps_item ==
    /\ pc = "get_memory_maps_item"
    /\ LET item == rawlist[idx + 1]
           addr == toaddr(item[1], item[2])
           entry(name) == <<addr, item[3], name, item[5], item[6], item[7]>>
       IN
       IF startswith_bracket(item[4])
       THEN /\ calls' = calls
            /\ LoopNext("get_memory_maps_item", "get_memory_maps_stat",
                        Append(ret, entry(item[4])), hit_enoent)
       ELSE \E o \in Read(Paths) :
              /\ calls' = Log("os.readlink", idx + 1, o)
              /\ IF o.kind = "return"
                 THEN LoopNext("get_memory_maps_item", "get_memory_maps_stat",
                               Append(ret, entry(o.val)), hit_enoent)
                 ELSE IF o.errno = ENOENT
                      THEN LoopNext("get_memory_maps_item", "get_memory_maps_stat",
                                    Append(ret, entry(unresolved(item[4]))), TRUE)
                      ELSE Finish(o) /\ UNCHANGED <<idx, ret, hit_enoent>>
    /\ UNCHANGED <<pid, _process_name, alive, alive0, op, arg, rawlist>>

\* get_memory_maps after the loop
get_memory_maps_stat ==
    /\ pc = "get_memory_maps_stat"
    /\ AfterLoop

(* -------------------------------- connections ------------------------- *)

\* kind -> (families, types)
conn_tmap ==
    [k \in {"all", "tcp", "inet", "unix"} |->
        CASE k = "all" -> <<{"AF_INET", "AF_INET6", "AF_UNIX"}, {"SOCK_STREAM", "SOCK_DGRAM"}>>
          [] k = "tcp" -> <<{"AF_INET", "AF_INET6"}, {"SOCK_STREAM"}>>
          [] k = "inet" -> <<{"AF_INET", "AF_INET6"}, {"SOCK_STREAM", "SOCK_DGRAM"}>>
          [] k = "unix" -> <<{"AF_UNIX"}, {"SOCK_STREAM", "SOCK_DGRAM"}>>]

\* the kind arguments get_connections is called with
Kinds == DOMAIN conn_tmap \cup {"tcp5"}

TCP_STATUSES ==
    [c \in {"TCPS_ESTABLISHED", "TCPS_SYN_SENT", "TCPS_SYN_RCVD", "TCPS_FIN_WAIT_1",
            "TCPS_FIN_WAIT_2", "TCPS_TIME_WAIT", "TCPS_CLOSED", "TCPS_CLOSE_WAIT",
            "TCPS_LAST_ACK", "TCPS_LISTEN", "TCPS_CLOSING", "PSUTIL_CONN_NONE",
            "TCPS_IDLE", "TCPS_BOUND"} |->
        CASE c = "TCPS_ESTABLISHED" -> "ESTABLISHED"
          [] c = "TCPS_SYN_SENT" -> "SYN_SENT"
          [] c = "TCPS_SYN_RCVD" -> "SYN_RECV"
          [] c = "TCPS_FIN_WAIT_1" -> "FIN_WAIT1"
          [] c = "TCPS_FIN_WAIT_2" -> "FIN_WAIT2"
          [] c = "TCPS_TIME_WAIT" -> "TIME_WAIT"
          [] c = "TCPS_CLOSED" -> "CLOSE"
          [] c = "TCPS_CLOSE_WAIT" -> "CLOSE_WAIT"
          [] c = "TCPS_LAST_ACK" -> "LAST_ACK"
          [] c = "TCPS_LISTEN" -> "LISTEN"
          [] c = "TCPS_CLOSING" -> "CLOSING"
          [] c = "PSUTIL_CONN_NONE" -> "NONE"
          [] c = "TCPS_IDLE" -> "IDLE"
          [] c = "TCPS_BOUND" -> "BOUND"]

\* get_proc_connections items: (fd, fam, type, laddr, raddr, status)
ConnItems == { <<3, "AF_INET", "SOCK_STREAM", "l", "r", "TCPS_ESTABLISHED">>,
               <<4, "AF_INET6", "SOCK_DGRAM", "l", "", "PSUTIL_CONN_NONE">>,
               <<5, "AF_INET", "SOCK_STREAM", "l", "r", "TCPS_99">> }

\* _psutil_sunos.get_proc_connections: all connections of the system
\* filtered by pid, so a terminated process has none and no failure
get_proc_connections ==
    IF alive
    THEN {Return(l) : l \in SeqsUpTo(ConnItems, MaxEntries)}
            \cup {EnvironmentError(e) : e \in Errnos}
    ELSE {Return(<<>>)}

RECURSIVE conn_loop(_, _, _, _)
\* the loop over rawlist: the outcome of filtering items into acc
conn_loop(items, families, types, acc) ==
    IF items = <<>> THEN Return(acc)
    ELSE LET item == Head(items) IN
         IF item[2] \notin families THEN conn_loop(Tail(items), families, types, acc)
         ELSE IF item[3] \notin types THEN conn_loop(Tail(items), families, types, acc)
         ELSE IF item[6] \notin DOMAIN TCP_STATUSES THEN Raise("KeyError")
         ELSE conn_loop(Tail(items), families, types,
                        Append(acc, <<item[1], item[2], item[3], item[4], item[5],
                                      TCP_STATUSES[item[6]]>>))

\* the sockets parsed from the output of pfiles
UnixSockets == { <<>>, << <<-1, "AF_UNIX", "SOCK_STREAM", "/s", "", "NONE">> >> }

\* how a run of "pfiles <pid>" ends: exit status 0, or not 0 with a
\* message on stderr
pfiles ==
    IF alive THEN {"ok", "permission denied", "error"}
    ELSE {"no such process"}

\* _get_unix_sockets(pid), iterated to its end
_get_unix_sockets(p) ==
    IF p = "ok" THEN {Return(u) : u \in UnixSockets}
    ELSE IF p = "permission denied" THEN {AccessDenied(pid, _process_name)}
    ELSE IF p = "no such process" THEN {NoSuchProcess(pid, _process_name)}
    ELSE {Raise("RuntimeError")}

\* get_connections(kind): the lines after the loop, r being the list so far
get_connections_tail(kind, r) ==
    /\ ret' = r
    /\ IF "AF_UNIX" \in conn_tmap[kind][1]
       THEN Goto("get_connections_unix")
       ELSE Finish(Return(r))

\* a get_connections that asks the system before it looks at kind
get_connections_LateCheck ==
    \E kind \in Kinds :
      /\ Enter("get_connections", kind)
      /\ rawlist' = <<>>
      /\ idx' = 0
      /\ hit_enoent' = FALSE
      /\ ret' = <<>>
      /\ \E o \in get_proc_connections :
           /\ calls' = First("get_proc_connections", 0, o)
           /\ IF kind \notin DOMAIN conn_tmap THEN Finish(Raise("ValueError"))
              ELSE Finish(o)

\* get_connections(kind) up to the check of an empty rawlist
get_connections ==
    \E kind \in Kinds :
      /\ Enter("get_connections", kind)
      /\ idx' = 0
      /\ hit_enoent' = FALSE
      /\ IF kind \notin DOMAIN conn_tmap
         THEN /\ calls' = <<>>
              /\ rawlist' = <<>>
              /\ ret' = <<>>
              /\ Finish(Raise("ValueError"))
         ELSE \E o \in get_proc_connections :
                /\ calls' = First("get_proc_connections", 0, o)
                /\ IF o.kind # "return"
                   THEN /\ rawlist' = <<>>
                        /\ ret' = <<>>
                        /\ Finish(o)
                   ELSE /\ rawlist' = o.val
                        /\ IF o.val = <<>>
                           THEN /\ ret' = <<>>
                                /\ Goto("get_connections_stat")
                           ELSE LET l == conn_loop(o.val, conn_tmap[kind][1],
                                                   conn_tmap[kind][2], <<>>)
                                IN IF l.kind = "return"
                                   THEN get_connections_tail(kind, l.val)
                                   ELSE Finish(l) /\ ret' = <<>>

\* a get_connections that takes an empty rawlist at its word
get_connections_stat_Skipped ==
    /\ pc = "get_connections_stat"
    /\ calls' = calls
    /\ get_connections_tail(arg, <<>>)
    /\ UNCHANGED <<pid, _process_name, alive, alive0, op, arg,
                   rawlist, idx, hit_enoent>>

\* get_connections with an empty rawlist: os.stat, then the rest
get_connections_stat ==
    /\ pc = "get_connections_stat"
    /\ calls' = Log("os.stat", 0, os_stat)
    /\ IF os_stat.kind = "return"
       THEN get_connections_tail(arg, <<>>)
       ELSE Finish(os_stat) /\ ret' = ret
    /\ UNCHANGED <<pid, _process_name, alive, alive0, op, arg,
                   rawlist, idx, hit_enoent>>

\* get_connections: the UNIX sockets
get_connections_unix ==
    /\ pc = "get_connections_unix"
    /\ \E p \in pfiles :
         /\ calls' = LogOn(calls, "pfiles", 0, p)
         /\ \E u \in _get_unix_sockets(p) :
              Finish(IF u.kind = "return" THEN Return(ret \o u.val) ELSE u)
    /\ UNCHANGED <<pid, _process_name, alive, alive0, op, arg,
                   rawlist, idx, ret, hit_enoent>>

Next ==
    \/ get_exe
    \/ get_name
    \/ get_cmdline
    \/ get_create_time
    \/ get_num_threads
    \/ get_ppid
    \/ get_uids
    \/ get_gids
    \/ get_cpu_times
    \/ get_memory_info
    \/ get_status
    \/ get_num_ctx_switches
    \/ get_num_fds
    \/ get_nice
    \/ get_nice_pid_exists
    \/ set_proc_nice
    \/ get_terminal
    \/ get_terminal_readlink
    \/ get_terminal_stat
    \/ get_cwd
    \/ get_cwd_stat
    \/ process_wait
    \/ get_threads
    \/ get_threads_query
    \/ get_threads_stat
    \/ get_open_files
    \/ get_open_files_islink
    \/ get_open_files_readlink
    \/ get_open_files_stat
    \/ get_memory_maps
    \/ get_memory_maps_item
    \/ get_memory_maps_stat
    \/ get_connections
    \/ get_connections_stat
    \/ get_connections_unix
    \/ Die

Spec == Init /\ [][Next]_vars

(* ====================================================================== *)
(* Properties                                                             *)
(* ====================================================================== *)

\* a call has ended: inner is what the method body gave, result what the
\* caller sees
Done == pc = "done"

\* indices of the logged low-level calls of the current call named fn
CallsOf(fn) == { i \in DOMAIN calls : calls[i].fn = fn }

\* C1: for every wrapped Process operation, a successful result is passed
\* through unchanged; a low-level failure with ENOENT or ESRCH is raised as
\* NoSuchProcess(pid, cached name); one with EPERM or EACCES as
\* AccessDenied(pid, cached name); one with any other code is re-raised
\* unmodified.
C1_Classifier ==
    Done =>
      /\ inner.kind = "return" => result = inner
      /\ (inner.kind = "EnvironmentError" /\ inner.errno \in {"ENOENT", "ESRCH"})
            => result = [kind |-> "NoSuchProcess", pid |-> pid, name |-> _process_name]
      /\ (inner.kind = "EnvironmentError" /\ inner.errno \in {"EPERM", "EACCES"})
            => result = [kind |-> "AccessDenied", pid |-> pid, name |-> _process_name]
      /\ (inner.kind = "EnvironmentError"
            /\ inner.errno \notin {"ENOENT", "ESRCH", "EPERM", "EACCES"})
            => result = inner

\* a read that failed with ESRCH has been reported as NoSuchProcess
C1_Witness ==
    /\ Done
    /\ op = "get_cpu_times"
    /\ inner = [kind |-> "EnvironmentError", errno |-> "ESRCH"]
    /\ result.kind = "NoSuchProcess"

\* the accessors of the handle, called with a supported argument
IsAccessor ==
    /\ op \in {"get_name", "get_exe", "get_cmdline", "get_create_time",
               "get_num_threads", "get_nice", "get_ppid", "get_uids", "get_gids",
               "get_cpu_times", "get_terminal", "get_cwd", "get_memory_info",
               "get_status", "get_threads", "get_open_files", "get_connections",
               "get_memory_maps", "get_num_fds", "get_num_ctx_switches"}
    /\ op = "get_connections" => arg \in DOMAIN conn_tmap

\* C2: for a process id that denotes a terminated process, every accessor
\* raises NoSuchProcess.
C2_TerminatedRaisesNoSuchProcess ==
    (Done /\ ~alive0 /\ IsAccessor) => result.kind = "NoSuchProcess"

\* the single-value accessors
IsSingleValue ==
    op \in {"get_name", "get_exe", "get_cmdline", "get_create_time",
            "get_num_threads", "get_nice", "get_ppid", "get_uids", "get_gids",
            "get_cpu_times", "get_memory_info", "get_status", "get_cwd",
            "get_terminal", "get_num_ctx_switches"}

\* C3: for a process that stays alive for the whole call, every
\* single-value accessor either returns a value or raises AccessDenied,
\* whatever failure code the underlying read reports.
C3_LiveReturnsOrAccessDenied ==
    (Done /\ alive /\ IsSingleValue) => result.kind \in {"return", "AccessDenied"}

\* the list enumerators
IsEnumerator == op \in {"get_threads", "get_open_files", "get_memory_maps"}

\* indices of the logged calls that read the detail of one listed entry
DetailCalls ==
    { i \in DOMAIN calls :
        i > 1 /\ calls[i].fn \in {"query_process_thread", "os.path.islink", "os.readlink"} }

\* C4: in each list enumerator, if the process terminates after the entries
\* were listed, so that a per-entry detail read finds its entry gone, the
\* call raises NoSuchProcess and never returns a partial or empty list.
C4_DeathInLoopRaisesNoSuchProcess ==
    (Done /\ IsEnumerator /\ \E i \in DetailCalls : ~calls[i].alive)
        => result.kind = "NoSuchProcess"

\* a list enumerator has ended on a process that is still alive, at least
\* one per-entry detail read failed with ENOENT, and no low-level call
\* failed in any other way
PartialMissAlive ==
    /\ Done
    /\ IsEnumerator
    /\ alive
    /\ \E i \in DetailCalls : calls[i].r = "ENOENT"
    /\ \A i \in DOMAIN calls : calls[i].r \in {"ok", "ENOENT", "True", "False"}

\* C5 as stated: in each list enumerator, if the per-entry detail read fails
\* with ENOENT for a subset of the entries and the process remains alive,
\* the call raises no error and returns exactly the entries whose detail
\* read succeeded: the failed entries are omitted and no other entry is.
C5_OnlyFailedOmitted ==
    PartialMissAlive =>
      /\ result.kind = "return"
      /\ Len(result.val) =
           Len(rawlist) - Cardinality({ i \in DetailCalls : calls[i].r = "ENOENT" })

\* the listed entries for which a logged call fn gave r, in listing order
EntriesWith(fn, r) ==
    LET hit(e) == \E i \in CallsOf(fn) : calls[i].arg = e /\ calls[i].r = r
    IN SelectSeq(rawlist, hit)

\* C5, amended: under the same conditions the call raises no error;
\* get_threads returns exactly the threads whose read succeeded;
\* get_open_files returns exactly the descriptors whose link was read and
\* found to be a regular file, so it also omits entries that are not links
\* or not regular files; get_memory_maps omits nothing: it returns one entry
\* per listed mapping, a failed one carrying the unresolved
\* /proc/<pid>/path/<name>.
C5_PartialMissResult ==
    PartialMissAlive =>
      /\ result.kind = "return"
      /\ op = "get_threads" =>
           [i \in DOMAIN result.val |-> result.val[i][1]]
              = EntriesWith("query_process_thread", "ok")
      /\ op = "get_open_files" =>
           [i \in DOMAIN result.val |-> result.val[i][2]]
              = EntriesWith("isfile_strict", "True")
      /\ op = "get_memory_maps" =>
           /\ Len(result.val) = Len(rawlist)
           /\ \A i \in CallsOf("os.readlink") :
                LET k == calls[i].arg IN
                IF calls[i].r = "ENOENT"
                THEN result.val[k][3] = <<"/proc", pid, "path", rawlist[k][4]>>
                ELSE result.val[k][3] \in Paths

\* every listed descriptor vanished before its link was read, the process
\* lived on, and get_open_files returned the empty list
C5_Witness ==
    /\ PartialMissAlive
    /\ op = "get_open_files"
    /\ Len(rawlist) = MaxEntries
    /\ \A e \in 1..Len(rawlist) :
         \E i \in CallsOf("os.readlink") : calls[i].arg = e /\ calls[i].r = "ENOENT"
    /\ result = [kind |-> "return", val |-> <<>>]

\* C6: get_connections with a kind outside the supported set raises
\* ValueError, unchanged by the classifier, before the native connection
\* list is retrieved, before any existence check and before pfiles is run,
\* whether or not the process is alive.
C6_InvalidKindFailsFast ==
    (op = "get_connections" /\ pc # "idle" /\ arg \notin DOMAIN conn_tmap)
        => /\ Done
           /\ inner = [kind |-> "ValueError"]
           /\ result = [kind |-> "ValueError"]
           /\ calls = <<>>

\* an unsupported kind was rejected on a terminated process
C6_Witness ==
    /\ Done
    /\ op = "get_connections"
    /\ arg = "tcp5"
    /\ ~alive0
    /\ result.kind = "ValueError"

\* C7: set_proc_nice on a handle whose pid is 2 or 3 raises AccessDenied for
\* every value and never calls setpriority; for any other pid setpriority
\* is called exactly once.
C7_SetNiceSpecialPids ==
    (Done /\ op = "set_proc_nice") =>
      IF pid \in {2, 3}
      THEN /\ result = [kind |-> "AccessDenied", pid |-> pid, name |-> _process_name]
           /\ CallsOf("setpriority") = {}
      ELSE /\ Cardinality(CallsOf("setpriority")) = 1
           /\ calls[1].arg = arg

\* priority-set on pid 3 was refused without a write
C7_Witness ==
    /\ Done
    /\ op = "set_proc_nice"
    /\ pid = 3
    /\ arg = 10
    /\ result.kind = "AccessDenied"
    /\ calls = <<>>

\* C8: when getpriority fails with ENOENT or ESRCH, get_nice raises
\* AccessDenied if pid_exists reports the process alive and NoSuchProcess if
\* it reports it gone; get_nice never raises NoSuchProcess for a process
\* pid_exists confirms alive.
C8_GetNiceExistenceCheck ==
    (Done /\ op = "get_nice") =>
      /\ calls[1].r \in {"ENOENT", "ESRCH"} =>
           /\ Len(calls) = 2
           /\ calls[2].fn = "pid_exists"
           /\ calls[2].r = "True" =>
                result = [kind |-> "AccessDenied", pid |-> pid, name |-> _process_name]
           /\ calls[2].r = "False" =>
                result = [kind |-> "NoSuchProcess", pid |-> pid, name |-> _process_name]
      /\ result.kind = "NoSuchProcess" =>
           \A i \in CallsOf("pid_exists") : calls[i].r # "True"

\* getpriority reported ESRCH for a live process and get_nice raised
\* AccessDenied
C8_Witness ==
    /\ Done
    /\ op = "get_nice"
    /\ calls[1].r = "ESRCH"
    /\ Len(calls) = 2
    /\ calls[2].r = "True"
    /\ result.kind = "AccessDenied"

\* get_connections was called with a supported kind and the native list
\* came back empty
EmptyRawlist ==
    /\ op = "get_connections"
    /\ pc # "idle"
    /\ arg \in DOMAIN conn_tmap
    /\ Len(calls) >= 1
    /\ calls[1].fn = "get_proc_connections"
    /\ calls[1].r = "ok"
    /\ rawlist = <<>>

\* C9: in get_connections with a supported kind, whenever the native list
\* comes back empty, os.stat('/proc/<pid>') is called before anything else
\* and before any result is returned: if the process is gone the call
\* raises NoSuchProcess, and an empty or unix-socket-only list is returned
\* only after the check found the process alive.
C9_EmptyListChecked ==
    EmptyRawlist =>
      /\ pc \in {"get_connections_unix", "done"} =>
           /\ Len(calls) >= 2
           /\ calls[2].fn = "os.stat"
      /\ (Done /\ calls[2].r # "ok") =>
           /\ Len(calls) = 2
           /\ result = [kind |-> "NoSuchProcess", pid |-> pid, name |-> _process_name]
      /\ (Done /\ result.kind = "return") =>
           /\ calls[2].r = "ok"
           /\ calls[2].alive

\* an empty native list, a successful check, and a list of unix sockets only
C9_Witness ==
    /\ EmptyRawlist
    /\ Done
    /\ arg = "unix"
    /\ calls[2].fn = "os.stat"
    /\ result.kind = "return"
    /\ Len(result.val) = 1

\* the readlink calls of the current call all failed with ENOENT, and
\* there are as many as the accessor can make
AllLinksMissing ==
    /\ CallsOf("os.readlink") # {}
    /\ \A i \in CallsOf("os.readlink") : calls[i].r = "ENOENT"
    /\ op = "get_terminal" => Cardinality(CallsOf("os.readlink")) = Len(TermFds)

\* C10 as stated: in get_cwd and get_terminal, when resolving the link
\* fails with ENOENT the accessor checks that the process still exists; if
\* it does the accessor returns None, if not it raises NoSuchProcess; a
\* failure with another code is not turned into None.
C10_LinkMissChecked ==
    (Done /\ op \in {"get_cwd", "get_terminal"}) =>
      /\ (\E i \in CallsOf("os.readlink") : calls[i].r = "ENOENT") =>
           /\ CallsOf("os.stat") # {}
           /\ \A j \in CallsOf("os.stat") :
                IF calls[j].r = "ok"
                THEN result = [kind |-> "return", val |-> None]
                ELSE result.kind = "NoSuchProcess"
      /\ calls[Len(calls)].r \notin {"ok", "ENOENT"} => result.kind # "return"

\* C10, amended: get_cwd as stated.  get_terminal makes the check only when
\* readlink failed with ENOENT for all four descriptors 0, 1, 2, 255, and
\* then returns None if the process exists and raises NoSuchProcess if not;
\* when an ENOENT on one descriptor is followed by a later descriptor that
\* resolves, that path is returned with no check, and when it is followed
\* by a failure with another code, that failure is raised with no check.  A
\* failure with another code is never turned into None.
C10_AllLinksMissChecked ==
    (Done /\ op \in {"get_cwd", "get_terminal"}) =>
      LET last == calls[Len(calls)] IN
      /\ AllLinksMissing =>
           /\ last.fn = "os.stat"
           /\ Cardinality(CallsOf("os.stat")) = 1
           /\ IF last.r = "ok"
              THEN result = [kind |-> "return", val |-> None]
              ELSE result = [kind |-> "NoSuchProcess", pid |-> pid, name |-> _process_name]
      /\ ~AllLinksMissing =>
           /\ CallsOf("os.stat") = {}
           /\ IF last.r = "ok"
              THEN last.fn = "os.readlink" /\ result.kind = "return" /\ result.val \in Paths
              ELSE result.kind \in {"NoSuchProcess", "AccessDenied", "EnvironmentError"}
      /\ last.r \notin {"ok", "ENOENT"} => result.kind # "return"

\* none of the four descriptors of get_terminal resolved, the process was
\* found alive and None was returned
C10_Witness ==
    /\ Done
    /\ op = "get_terminal"
    /\ AllLinksMissing
    /\ calls[Len(calls)].fn = "os.stat"
    /\ result = [kind |-> "return", val |-> None]

\* a call of a list enumerator is under way or has ended
InEnumerator == IsEnumerator /\ pc # "idle"

\* some per-entry detail read of the current call failed with ENOENT
SomeEntryMissed == \E i \in DetailCalls : calls[i].r = "ENOENT"

\* no per-entry call of the current call failed with a code other than ENOENT
NoOtherEntryFailure ==
    \A i \in DOMAIN calls : i > 1 => calls[i].r \in {"ok", "ENOENT", "True", "False"}

\* the os.stat of the current call, if any, is its last low-level call and
\* was made with every listed entry visited
CheckAfterLoop ==
    \A i \in CallsOf("os.stat") :
        /\ i = Len(calls)
        /\ idx = Len(rawlist)
        /\ Done

\* the listing was made once, as the first call, and no entry was read
\* twice by the same low-level call
NothingRetried ==
    /\ Len(calls) >= 1 =>
         /\ calls[1].fn \in {"os.listdir", "get_proc_memory_maps"}
         /\ \A i \in DOMAIN calls :
              calls[i].fn \in {"os.listdir", "get_proc_memory_maps"} => i = 1
    /\ \A i, j \in DOMAIN calls :
         (calls[i].fn = calls[j].fn /\ calls[i].arg = calls[j].arg) => i = j

\* C11 as stated: in one call of a list enumerator the number of existence
\* checks is exactly 1 if at least one per-entry read failed with ENOENT
\* and exactly 0 otherwise, the check happens only after the loop has
\* finished, and no per-entry read or listing is ever retried.
C11_OneCheckIffMissed ==
    InEnumerator =>
      /\ Done => Cardinality(CallsOf("os.stat")) = (IF SomeEntryMissed THEN 1 ELSE 0)
      /\ CheckAfterLoop
      /\ NothingRetried

\* C11, amended: the number of existence checks is exactly 1 if at least
\* one per-entry read failed with ENOENT and no per-entry call failed with
\* any other code, and exactly 0 otherwise (a failure with another code
\* ends the call at once, before the check, even after an ENOENT); the
\* check happens only after the loop has finished, and no per-entry read
\* or listing is ever retried.
C11_OneCheckIffMissedAndLoopEnded ==
    InEnumerator =>
      /\ Done => Cardinality(CallsOf("os.stat")) =
                   (IF SomeEntryMissed /\ NoOtherEntryFailure THEN 1 ELSE 0)
      /\ Cardinality(CallsOf("os.stat")) <= 1
      /\ CheckAfterLoop
      /\ NothingRetried

\* get_threads listed MaxEntries threads, missed at least one, read all of
\* them once and then made its one check as the last call
C11_Witness ==
    /\ Done
    /\ op = "get_threads"
    /\ Len(rawlist) = MaxEntries
    /\ Cardinality(CallsOf("query_process_thread")) = MaxEntries
    /\ SomeEntryMissed
    /\ CallsOf("os.stat") = {Len(calls)}
    /\ result.kind = "return"

====
